---- MODULE Spec2Model ----
(***************************************************************************)
(* State-machine model of pygofpid.GOFPID (src/pygofpid/gofpid.py): the    *)
(* constructor, fit() and predict().                                       *)
(*                                                                         *)
(* Python values are encoded as follows.                                   *)
(*   - An attribute that is None, or not set at all, is the empty tuple    *)
(*     <<>>; a value v that is present is the one-element tuple <<v>>.     *)
(*   - A dict is a function whose DOMAIN is its set of keys; {} is the     *)
(*     function with the empty domain.                                     *)
(*   - A list is a sequence.                                               *)
(*   - An OpenCV callable is named by a string ("GaussianBlur", "blur",    *)
(*     "erode", "dilate"); a rectangular structuring element made by       *)
(*     cv.getStructuringElement(cv.MORPH_RECT, (w, h)) is the pair <<w, h>>*)
(*   - A frame or a mask is an image of one row and one channel: the       *)
(*     sequence of its pixels, each in 0..255.                             *)
(***************************************************************************)
EXTENDS Integers, Sequences, FiniteSets, TLC

VARIABLES
    blur,             \* self.blur: None or a dict
    frg_detect,       \* self.frg_detect: None or a string
    mat_morph,        \* self.mat_morph: None or a list of dicts
    frg_detect_mth,   \* self._frg_detect_mth: unset, or the cv BackgroundSubtractor
    motion_mask_,     \* self.motion_mask_: unset, or the last mask
    call,             \* the last call on the instance and its outcome
    fit_returned,     \* history: some fit() call has returned self
    fit_raised,       \* history: some fit() call has raised
    fed,              \* history: the denoised frames of the predict() calls that returned
    since_fit,        \* history: those of them since the last fit() that made a subtractor
    blur0,            \* history: self.blur as the constructor received it
    mat_morph0        \* history: self.mat_morph as the constructor received it

vars == <<blur, frg_detect, mat_morph, frg_detect_mth, motion_mask_, call,
          fit_returned, fit_raised, fed, since_fit, blur0, mat_morph0>>

(***************************************************************************)
(* Bounds of the model.                                                    *)
(***************************************************************************)
\* the longest sequence of frames one instance is fed
MaxFrames == 2
\* the longest mat_morph list the constructor is given
MaxMorph == 2

(***************************************************************************)
(* Python values.                                                          *)
(***************************************************************************)
None == <<>>

Some(v) == <<v>>

\* bool(x) of a dict or a list held in an attribute: None, {} and [] are falsy
Truthy(x) == x # None /\ DOMAIN x[1] # {}

\* k in d.keys()
HasKey(d, k) == k \in DOMAIN d

\* d.get(k): None when the key is absent
DictGet(d, k) == IF k \in DOMAIN d THEN Some(d[k]) ELSE None

\* d[k] = v
DictSet(d, k, v) == [j \in DOMAIN d \cup {k} |-> IF j = k THEN v ELSE d[j]]

\* if k not in d.keys(): d[k] = v
DictSetMissing(d, k, v) == IF HasKey(d, k) THEN d ELSE DictSet(d, k, v)

(***************************************************************************)
(* Inputs: the configurations the constructor is given, and the frames.    *)
(***************************************************************************)
\* a dict with no key, or with the one key k bound to a value of V
Part(k, V) == {<<>>} \cup {[j \in {k} |-> v] : v \in V}

BlurDicts ==
    {a @@ b @@ c : a \in Part("fun", {"GaussianBlur", "blur"}),
                   b \in Part("ksize", {<<5, 5>>}),
                   c \in Part("borderType", {"BORDER_REPLICATE"})}

MorphDicts ==
    {a @@ b : a \in Part("fun", {"erode", "dilate"}),
              b \in Part("kernel", {<<3, 3>>})}

BlurConfigs == {None} \cup {Some(d) : d \in BlurDicts}

FrgConfigs == {None, Some("MOG2"), Some("KNN"), Some("GMG")}

MorphConfigs ==
    {None} \cup {Some(l) : l \in UNION {[1..n -> MorphDicts] : n \in 0..MaxMorph}}

\* a bright scene with a one-pixel gap, and the same scene with one pixel
\* dimmed
FrameInputs ==
    { <<255, 255, 0, 255, 255, 255>>,
      <<255, 255, 0, 255, 160, 255>> }

(***************************************************************************)
(* The OpenCV operations the pipeline calls, on one-row images.  Rows      *)
(* above and below the image are copies of the row (blur) or are ignored   *)
(* (erode, dilate), so a w x h kernel acts as a window of w pixels.        *)
(***************************************************************************)
RECURSIVE SumOver(_, _, _)
\* f[a] + ... + f[b]
SumOver(f, a, b) == IF a > b THEN 0 ELSE f[a] + SumOver(f, a + 1, b)

\* n / d rounded to the nearest integer
Round(n, d) == (2 * n + d) \div (2 * d)

\* cv.BORDER_DEFAULT (BORDER_REFLECT_101): the pixel read at position j of a
\* row of w pixels
Reflect101(j, w) == IF j < 1 THEN 2 - j ELSE IF j > w THEN 2 * w - j ELSE j

\* cv.blur(src, ksize, dst): the normalized box filter. The third positional
\* parameter of cv.blur is dst, so the value passed there selects no border
\* mode: the border is always cv.BORDER_DEFAULT.
BoxBlur(X, ksize, third) ==
    LET w == Len(X)
        r == ksize[1] \div 2
    IN  [i \in 1..w |->
            Round(SumOver([j \in 1..(2 * r + 1) |-> X[Reflect101(i - r - 1 + j, w)]],
                          1, 2 * r + 1),
                  2 * r + 1)]

\* The Gaussian coefficients, in thousandths, of a kernel of kw taps and
\* standard deviation sigmaX. The third positional parameter of
\* cv.GaussianBlur is sigmaX, so the value passed there is read as a number:
\* cv.BORDER_DEFAULT is 4, cv.BORDER_REPLICATE is 1.
GaussCoeffs(kw, third) ==
    IF kw = 3
    THEN IF third = "BORDER_DEFAULT" THEN <<330, 340, 330>> ELSE <<274, 452, 274>>
    ELSE IF third = "BORDER_DEFAULT" THEN <<188, 206, 212, 206, 188>>
         ELSE <<54, 244, 404, 244, 54>>

\* cv.GaussianBlur(src, ksize, sigmaX), border cv.BORDER_DEFAULT
GaussianBlur(X, ksize, third) ==
    LET w == Len(X)
        r == ksize[1] \div 2
        c == GaussCoeffs(ksize[1], third)
    IN  [i \in 1..w |->
            Round(SumOver([j \in 1..(2 * r + 1) |->
                              c[j] * X[Reflect101(i - r - 1 + j, w)]],
                          1, 2 * r + 1),
                  1000)]

\* fun(X, ksize, borderType) for the callable named fun
CallBlurFun(fun, X, ksize, third) ==
    IF fun = "GaussianBlur" THEN GaussianBlur(X, ksize, third)
    ELSE BoxBlur(X, ksize, third)

\* the least and the greatest of a non-empty set of pixels
MinOf(S) == CHOOSE x \in S : \A y \in S : x <= y

MaxOf(S) == CHOOSE x \in S : \A y \in S : x >= y

\* the pixels of m under a window of kw pixels centred on i; positions
\* outside the image do not count (the default border value of erode and
\* dilate)
Window(m, i, kw) ==
    {m[j] : j \in {p \in 1..Len(m) : p >= i - kw \div 2 /\ p <= i + kw \div 2}}

\* cv.erode / cv.dilate called with kernel None use a 3 x 3 rectangle
KernelOrDefault(kernel) == IF kernel = None THEN <<3, 3>> ELSE kernel[1]

\* cv.erode(mask, kernel)
Erode(m, kernel) ==
    [i \in 1..Len(m) |-> MinOf(Window(m, i, KernelOrDefault(kernel)[1]))]

\* cv.dilate(mask, kernel)
Dilate(m, kernel) ==
    [i \in 1..Len(m) |-> MaxOf(Window(m, i, KernelOrDefault(kernel)[1]))]

\* fun(mask_, kernel) for the callable named fun
CallMorphFun(fun, m, kernel) ==
    IF fun = "erode" THEN Erode(m, kernel) ELSE Dilate(m, kernel)

(***************************************************************************)
(* The background subtractor made by cv.createBackgroundSubtractorMOG2()   *)
(* or cv.createBackgroundSubtractorKNN(). Its learned state is kept as the *)
(* sequence of frames it has been applied to; the scene estimate it        *)
(* compares a frame with is the latest of them.                            *)
(***************************************************************************)
\* cv.createBackgroundSubtractorMOG2() / cv.createBackgroundSubtractorKNN()
CreateBackgroundSubtractor(variant) == [variant |-> variant, history |-> <<>>]

\* the mask apply(X) returns: 255 foreground, 127 shadow, 0 background; with
\* nothing learned yet every pixel is foreground
ApplyMask(mth, X) ==
    IF mth.history = <<>>
    THEN [i \in 1..Len(X) |-> 255]
    ELSE LET bg == mth.history[Len(mth.history)]
         IN  [i \in 1..Len(X) |->
                 IF X[i] = bg[i] THEN 0
                 ELSE IF X[i] < bg[i] /\ 2 * X[i] >= bg[i] THEN 127
                 ELSE 255]

\* apply(X) that keeps only the frame it was given
ApplyLearnForgetting(mth, X) == [mth EXCEPT !.history = <<X>>]

\* apply(X) that takes the frame in twice
ApplyLearnTwice(mth, X) == [mth EXCEPT !.history = Append(Append(@, X), X)]

\* the subtractor after apply(X)
ApplyLearn(mth, X) == [mth EXCEPT !.history = Append(@, X)]

\* a test for foreground pixels alone, which misses the shadow value
NpAnyForeground(m) == \E i \in 1..Len(m) : m[i] = 255

\* np.any(mask)
NpAny(m) == \E i \in 1..Len(m) : m[i] # 0

(***************************************************************************)
(* fit(): the checks and the defaults of each stage, in the order of the   *)
(* code.                                                                   *)
(***************************************************************************)
\* a 3 x 3 default in the place of the 5 x 5 one
DefaultKernelSmall == <<3, 3>>

\* the structuring element fit() gives an entry that has none
DefaultKernel == <<5, 5>>

\* the kernel size fit() gives a blur that has none
DefaultKsize == <<3, 3>>

\* fit() raises 'Parameter blur has no key "fun".'
FitBlurRaises(b) == Truthy(b) /\ ~HasKey(b[1], "fun")

\* self.blur after the blur block of fit()
FitBlurDefaults(b) ==
    IF Truthy(b)
    THEN Some(DictSetMissing(DictSetMissing(b[1], "ksize", DefaultKsize),
                             "borderType", "BORDER_DEFAULT"))
    ELSE b

\* frg_detect is 'MOG2' or 'KNN'; anything else raises 'Unknown method for
\* background subtraction'
FitVariantKnown(f) == f = Some("MOG2") \/ f = Some("KNN")

\* the position of the first entry of the list with no key 'fun', or
\* Len(l) + 1 when every entry has one
FirstWithoutFun(l) ==
    IF \E i \in 1..Len(l) : ~HasKey(l[i], "fun")
    THEN CHOOSE i \in 1..Len(l) :
            /\ ~HasKey(l[i], "fun")
            /\ \A k \in 1..(i - 1) : HasKey(l[k], "fun")
    ELSE Len(l) + 1

\* fit() raises 'Parameter mat_morph has no key "fun".'
FitMorphRaises(mm) == Truthy(mm) /\ FirstWithoutFun(mm[1]) <= Len(mm[1])

\* self.mat_morph after the loop of fit(): the entries the loop visited
\* before it ended have a kernel
FitMorphDefaults(mm) ==
    IF Truthy(mm)
    THEN Some([i \in 1..Len(mm[1]) |->
                  IF i < FirstWithoutFun(mm[1])
                  THEN DictSetMissing(mm[1][i], "kernel", DefaultKernel)
                  ELSE mm[1][i]])
    ELSE mm

(***************************************************************************)
(* predict(): the stages, in the order of the code.                        *)
(***************************************************************************)
\* The outcomes of the denoising stage: the exception it raises ("" when
\* none) and the frame it hands on. With no 'fun' the call of None raises
\* TypeError. With 'fun' but no 'ksize' or no 'borderType' (fit() has not
\* run its blur block) OpenCV is called with None arguments: it either
\* raises or returns some frame.
DenoiseOutcomes(b, X) ==
    IF ~Truthy(b) THEN {[exc |-> "", frame |-> X]}
    ELSE IF ~HasKey(b[1], "fun") THEN {[exc |-> "TypeError", frame |-> X]}
    ELSE IF ~HasKey(b[1], "ksize") \/ ~HasKey(b[1], "borderType")
         THEN {[exc |-> "cv2.error", frame |-> X], [exc |-> "", frame |-> X]}
    ELSE {[exc |-> "",
           frame |-> CallBlurFun(b[1]["fun"], X, b[1]["ksize"], b[1]["borderType"])]}

RECURSIVE MorphLoopSkipping(_, _, _)
\* the loop with a guard that passes over an entry with no 'fun'
MorphLoopSkipping(l, i, m) ==
    IF i > Len(l) THEN [exc |-> "", mask |-> m]
    ELSE IF ~HasKey(l[i], "fun") THEN MorphLoopSkipping(l, i + 1, m)
    ELSE MorphLoopSkipping(l, i + 1,
                           CallMorphFun(l[i]["fun"], m, DictGet(l[i], "kernel")))

RECURSIVE MorphLoopReversed(_, _, _)
\* the loop going through the list from its last entry to its first
MorphLoopReversed(l, i, m) ==
    LET k == Len(l) + 1 - i
    IN  IF i > Len(l) THEN [exc |-> "", mask |-> m]
        ELSE IF ~HasKey(l[k], "fun") THEN [exc |-> "TypeError", mask |-> m]
        ELSE MorphLoopReversed(l, i + 1,
                               CallMorphFun(l[k]["fun"], m, DictGet(l[k], "kernel")))

RECURSIVE MorphLoop(_, _, _)
\* for d in self.mat_morph: mask_ = d.get('fun')(mask_, d.get('kernel')),
\* from entry i on; an entry with no 'fun' calls None and raises TypeError
MorphLoop(l, i, m) ==
    IF i > Len(l) THEN [exc |-> "", mask |-> m]
    ELSE IF ~HasKey(l[i], "fun") THEN [exc |-> "TypeError", mask |-> m]
    ELSE MorphLoop(l, i + 1, CallMorphFun(l[i]["fun"], m, DictGet(l[i], "kernel")))

\* a morphology stage that falls back to an erosion when it is disabled
RefineDefaultChain(mm, raw) ==
    IF Truthy(mm) THEN MorphLoop(mm[1], 1, raw)
    ELSE [exc |-> "", mask |-> Erode(raw, Some(DefaultKernel))]

\* the morphology stage on the raw mask
Refine(mm, raw) ==
    IF Truthy(mm) THEN MorphLoop(mm[1], 1, raw) ELSE [exc |-> "", mask |-> raw]

\* the value predict() returns for the mask it kept
Verdict(m) == IF NpAny(m) THEN 1 ELSE 0

\* a call that raised exception e
Raised(op, X, e) ==
    [op |-> op, exc |-> e, verdict |-> -1, X |-> X, denoised |-> None, raw |-> None]

(***************************************************************************)
(* The state machine.                                                      *)
(***************************************************************************)
\* GOFPID(blur, frg_detect, mat_morph)
Init ==
    /\ blur \in BlurConfigs
    /\ frg_detect \in FrgConfigs
    /\ mat_morph \in MorphConfigs
    /\ frg_detect_mth = None
    /\ motion_mask_ = None
    /\ call = [op |-> "init", exc |-> "", verdict |-> -1, X |-> None,
               denoised |-> None, raw |-> None]
    /\ fit_returned = FALSE
    /\ fit_raised = FALSE
    /\ fed = <<>>
    /\ since_fit = <<>>
    /\ blur0 = blur
    /\ mat_morph0 = mat_morph

\* fit()
Fit ==
    /\ UNCHANGED <<frg_detect, motion_mask_, fed, blur0, mat_morph0>>
    /\ IF FitBlurRaises(blur)
       THEN /\ call' = Raised("fit", None, "ValueError")
            /\ UNCHANGED <<blur, frg_detect_mth, mat_morph, since_fit>>
       ELSE /\ blur' = FitBlurDefaults(blur)
            /\ IF ~FitVariantKnown(frg_detect)
               THEN /\ call' = Raised("fit", None, "ValueError")
                    /\ UNCHANGED <<frg_detect_mth, mat_morph, since_fit>>
               ELSE /\ frg_detect_mth' = Some(CreateBackgroundSubtractor(frg_detect[1]))
                    /\ since_fit' = <<>>
                    /\ mat_morph' = FitMorphDefaults(mat_morph)
                    /\ call' = IF FitMorphRaises(mat_morph)
                               THEN Raised("fit", None, "ValueError")
                               ELSE [op |-> "fit", exc |-> "", verdict |-> -1,
                                     X |-> None, denoised |-> None, raw |-> None]
    /\ fit_returned' = (fit_returned \/ call'.exc = "")
    /\ fit_raised' = (fit_raised \/ call'.exc # "")

\* predict(X), lines 130 to 155: the stages and what they leave on self
PredictStages(X) ==
    /\ Len(fed) < MaxFrames
    /\ frg_detect_mth # None => Len(frg_detect_mth[1].history) < MaxFrames
    /\ UNCHANGED <<fit_returned, fit_raised, blur0, mat_morph0>>
    /\ \E dn \in DenoiseOutcomes(blur, X) :
          IF dn.exc # ""
          THEN /\ call' = Raised("predict", Some(X), dn.exc)
               /\ UNCHANGED <<frg_detect_mth, motion_mask_, fed, since_fit>>
          ELSE IF frg_detect_mth = None
          THEN /\ call' = Raised("predict", Some(X), "AttributeError")
               /\ UNCHANGED <<frg_detect_mth, motion_mask_, fed, since_fit>>
          ELSE LET raw == ApplyMask(frg_detect_mth[1], dn.frame)
                   rf == Refine(mat_morph, raw)
               IN  /\ frg_detect_mth' = Some(ApplyLearn(frg_detect_mth[1], dn.frame))
                   /\ IF rf.exc # ""
                      THEN /\ call' = Raised("predict", Some(X), rf.exc)
                           /\ UNCHANGED <<motion_mask_, fed, since_fit>>
                      ELSE /\ motion_mask_' = Some(rf.mask)
                           /\ fed' = Append(fed, dn.frame)
                           /\ since_fit' = Append(since_fit, dn.frame)
                           /\ call' = [op |-> "predict", exc |-> "",
                                       verdict |-> Verdict(rf.mask), X |-> Some(X),
                                       denoised |-> Some(dn.frame), raw |-> Some(raw)]

\* predict(X) with the defaults of fit() written into self.blur by predict()
PredictWritingDefaults(X) ==
    /\ PredictStages(X)
    /\ blur' = FitBlurDefaults(blur)
    /\ UNCHANGED <<frg_detect, mat_morph>>

\* predict(X): the configuration is read with dict.get and never written
Predict(X) ==
    /\ PredictStages(X)
    /\ UNCHANGED <<blur, frg_detect, mat_morph>>

Next == Fit \/ \E X \in FrameInputs : Predict(X)

Spec == Init /\ [][Next]_vars

(***************************************************************************)
(* Properties.                                                             *)
(***************************************************************************)
\* the last call was predict() and it returned a verdict
Returned == call.op = "predict" /\ call.exc = ""

\* the frames the subtractor has learned from
Learned == frg_detect_mth[1].history

\* s is an initial part of t
IsPrefix(s, t) == Len(s) <= Len(t) /\ SubSeq(t, 1, Len(s)) = s

\* every pixel of the mask is 0
AllZero(m) == \A i \in DOMAIN m : m[i] = 0

RECURSIVE Composed(_, _, _)
\* op_n(... op_1(m) ...) for the first n entries of the list l
Composed(l, n, m) ==
    IF n = 0 THEN m
    ELSE CallMorphFun(l[n]["fun"], Composed(l, n - 1, m), Some(l[n]["kernel"]))

\* the list l with kernel k written into every entry that has none
WithKernel(l, k) ==
    [i \in 1..Len(l) |-> IF HasKey(l[i], "kernel") THEN l[i] ELSE DictSet(l[i], "kernel", k)]

\* C1: after a fit() call that raised a configuration error no Background
\* Model is bound and every later predict() call raises.
C1_FailedFitLeavesUnconfigured ==
    fit_raised => /\ frg_detect_mth = None
                  /\ (call.op = "predict" => call.exc # "")

\* C2: predict() on an instance on which fit() has never succeeded raises,
\* returns no verdict and leaves motion_mask_ unset.
C2_PredictBeforeFitRaises ==
    ~fit_returned => /\ motion_mask_ = None
                     /\ (call.op = "predict" => call.exc # "" /\ call.verdict = -1)

\* predict() called on an instance whose only fit() raised on mat_morph: the
\* subtractor is bound and has taken the frame in, and predict() raised
C2_Witness ==
    /\ ~fit_returned
    /\ call.op = "predict"
    /\ call.exc = "TypeError"
    /\ frg_detect_mth # None
    /\ Learned # <<>>

\* C3 as stated: once fit() has succeeded no later call replaces, resets or
\* discards the Background Model, so what it has learned only grows.
C3_ModelNeverReplaced ==
    [][fit_returned =>
          /\ frg_detect_mth' # None
          /\ IsPrefix(frg_detect_mth[1].history, frg_detect_mth'[1].history)]_vars

\* C3 amended: once fit() has succeeded a Background Model stays bound; each
\* predict() returns and extends what the model has learned by its own
\* frame; each further fit() returns and binds a fresh model of the
\* configured variant that has learned nothing.
C3_OnlyFitReplacesModel ==
    [][fit_returned =>
          /\ frg_detect_mth' # None
          /\ call'.exc = ""
          /\ (call'.op = "predict" =>
                 frg_detect_mth'[1] =
                     [frg_detect_mth[1] EXCEPT !.history = Append(@, call'.denoised[1])])
          /\ (call'.op = "fit" =>
                 frg_detect_mth'[1] = [variant |-> frg_detect[1], history |-> <<>>])]_vars

\* a further fit() on an instance whose model had learned from a frame: the
\* model bound now has learned nothing
C3_Witness ==
    /\ fit_returned
    /\ call.op = "fit"
    /\ fed # <<>>
    /\ Learned = <<>>

\* C4 as stated: after the predict() calls that returned a verdict, the frames
\* the model has been updated with are exactly their denoised frames, in call
\* order.
C4_ModelHoldsEveryFrame == Returned => Learned = fed

\* C4 amended: after the predict() calls that returned a verdict since the
\* latest fit(), the frames the model has been updated with are exactly their
\* denoised frames, in call order, each once; the latest of them is the
\* frame of the last call.
C4_ModelHoldsFramesSinceFit ==
    fit_returned =>
        /\ Learned = since_fit
        /\ Len(since_fit) <= Len(fed)
        /\ SubSeq(fed, Len(fed) - Len(since_fit) + 1, Len(fed)) = since_fit
        /\ (Returned => Learned[Len(Learned)] = call.denoised[1])

\* two predict() calls with different frames have returned since the latest
\* fit(), and the model holds both frames in call order
C4_Witness ==
    /\ fit_returned
    /\ Returned
    /\ Len(Learned) = 2
    /\ Learned[1] # Learned[2]
    /\ Learned = fed

\* C5: the verdict predict() returns is 1 exactly when some pixel of the
\* refined mask of that call is non-zero, shadow values included, and 0
\* otherwise; motion_mask_ is that refined mask.
C5_VerdictIffMaskNonZero ==
    Returned =>
        /\ motion_mask_ # None
        /\ call.verdict \in {0, 1}
        /\ (call.verdict = 1 <=> ~AllZero(motion_mask_[1]))
        /\ (Truthy(mat_morph) =>
               motion_mask_[1] = Composed(mat_morph[1], Len(mat_morph[1]), call.raw[1]))
        /\ (~Truthy(mat_morph) => motion_mask_[1] = call.raw[1])

\* a verdict of 1 for a mask whose non-zero pixels are all shadow pixels
C5_Witness ==
    /\ Returned
    /\ call.verdict = 1
    /\ \A i \in DOMAIN motion_mask_[1] : motion_mask_[1][i] \in {0, 127}

\* C6: the refiner applies the entries of mat_morph in list order, each once
\* with its own kernel, each on the output of the one before: the mask kept is
\* op_n(... op_1(raw mask) ...).
C6_ChainInListOrder ==
    (Returned /\ mat_morph # None) =>
        motion_mask_[1] = Composed(mat_morph[1], Len(mat_morph[1]), call.raw[1])

\* the chain [erode, dilate] with 3 x 3 kernels has removed a speckle: the raw
\* mask had a non-zero pixel, the mask kept has none, and the chain in the
\* other order would have kept one
C6_Witness ==
    /\ Returned
    /\ mat_morph = Some(<<[fun |-> "erode", kernel |-> <<3, 3>>],
                          [fun |-> "dilate", kernel |-> <<3, 3>>]>>)
    /\ ~AllZero(call.raw[1])
    /\ AllZero(motion_mask_[1])
    /\ ~AllZero(Dilate(Erode(Dilate(call.raw[1], Some(<<3, 3>>)), Some(<<3, 3>>)),
                       Some(<<3, 3>>)))

\* C7: with the denoiser disabled the subtractor is given the input frame
\* itself; with the refiner disabled or its list empty the mask kept is the
\* raw mask of the subtractor.
C7_IdentityPaths ==
    Returned =>
        /\ (blur = None =>
               /\ call.denoised = call.X
               /\ Learned[Len(Learned)] = call.X[1])
        /\ (mat_morph = None \/ mat_morph = Some(<<>>) => motion_mask_ = call.raw)

\* both stages disabled, a second frame: the mask kept is the raw mask, and it
\* is neither empty nor full
C7_Witness ==
    /\ Returned
    /\ blur = None
    /\ mat_morph = None
    /\ Len(Learned) = 2
    /\ motion_mask_ = call.raw
    /\ ~AllZero(motion_mask_[1])
    /\ \E i \in DOMAIN motion_mask_[1] : motion_mask_[1][i] = 0

\* C8: fit() raises a configuration error whenever a blur dict is given that
\* has no 'fun' (a dict with no key included), whenever frg_detect is neither
\* 'MOG2' nor 'KNN', and whenever an entry of mat_morph has no 'fun'.
C8_InvalidConfigRaises ==
    (/\ call.op = "fit"
     /\ \/ (blur0 # None /\ ~HasKey(blur0[1], "fun"))
        \/ frg_detect \notin {Some("MOG2"), Some("KNN")}
        \/ (mat_morph0 # None /\ \E i \in DOMAIN mat_morph0[1] : ~HasKey(mat_morph0[1][i], "fun")))
    => call.exc = "ValueError"

\* C9: after a fit() that returned, an enabled blur has the caller's ksize
\* and borderType where given and (3, 3) and BORDER_DEFAULT otherwise, every
\* mat_morph entry has the caller's kernel where given and the 5 x 5 rectangle
\* otherwise, nothing else of the configuration is changed, and the mask
\* predict() keeps is the one an explicit 5 x 5 kernel gives.
C9_DefaultsAtFit ==
    fit_returned =>
        /\ (Truthy(blur0) =>
               /\ blur # None
               /\ DOMAIN blur[1] = {"fun", "ksize", "borderType"}
               /\ blur[1]["fun"] = blur0[1]["fun"]
               /\ blur[1]["ksize"] =
                      (IF HasKey(blur0[1], "ksize") THEN blur0[1]["ksize"] ELSE <<3, 3>>)
               /\ blur[1]["borderType"] =
                      (IF HasKey(blur0[1], "borderType") THEN blur0[1]["borderType"]
                       ELSE "BORDER_DEFAULT"))
        /\ (~Truthy(blur0) => blur = blur0)
        /\ (Truthy(mat_morph0) =>
               /\ mat_morph # None
               /\ Len(mat_morph[1]) = Len(mat_morph0[1])
               /\ \A i \in DOMAIN mat_morph0[1] :
                     /\ DOMAIN mat_morph[1][i] = {"fun", "kernel"}
                     /\ mat_morph[1][i]["fun"] = mat_morph0[1][i]["fun"]
                     /\ mat_morph[1][i]["kernel"] =
                            (IF HasKey(mat_morph0[1][i], "kernel")
                             THEN mat_morph0[1][i]["kernel"] ELSE <<5, 5>>)
               /\ (Returned =>
                      motion_mask_[1] =
                          Composed(WithKernel(mat_morph0[1], <<5, 5>>),
                                   Len(mat_morph0[1]), call.raw[1])))
        /\ (~Truthy(mat_morph0) => mat_morph = mat_morph0)

\* a blur given with no ksize and no borderType and a dilation given with no
\* kernel, after fit() and a predict(): the mask kept is not the one a 3 x 3
\* kernel gives
C9_Witness ==
    /\ fit_returned
    /\ Returned
    /\ blur0 = Some([fun |-> "blur"])
    /\ mat_morph0 = Some(<<[fun |-> "dilate"]>>)
    /\ motion_mask_[1] # Dilate(call.raw[1], Some(<<3, 3>>))

\* C10: no predict() call, returning or raising, changes blur, frg_detect or
\* mat_morph.
C10_PredictKeepsConfiguration ==
    [][call'.op = "predict" =>
          /\ blur' = blur
          /\ frg_detect' = frg_detect
          /\ mat_morph' = mat_morph]_vars

\* a predict() that returned on an instance whose fit() had written defaults
\* into both stage configurations
C10_Witness ==
    /\ Returned
    /\ fit_returned
    /\ blur # blur0
    /\ mat_morph # mat_morph0
    /\ blur0 # None
    /\ mat_morph0 # None

====
